---- MODULE Spec2Model ----
(***************************************************************************)
(* Model of the network buffering layer of volga:                          *)
(*   - BufferQueue  (rust/src/network/buffer_queue.rs): per-channel send   *)
(*     queue, sequence counter, schedule cursor and pending pop requests;  *)
(*   - DataReader   (rust/src/network/data_reader.rs): dispatcher loop     *)
(*     with watermark / out-of-order map, acks and the shared out_queue.   *)
(* buffer_queue.rs carries unresolved merge markers; the model follows the *)
(* incoming side (85a48ff, "Acks WIP"), the only side that stamps buffer   *)
(* ids, which data_reader.rs and request_pop(channel_id, buffer_id) need.  *)
(***************************************************************************)
EXTENDS Integers, Sequences, FiniteSets, TLC

(* ---------------------------------------------------------------- bounds *)
\* program constant, buffer_queue.rs:12
MAX_BUFFERS_PER_CHANNEL == 10

\* try_push calls that succeed on the first channel
MaxPushes == 11
\* largest buffer id handed to request_pop on the first channel
MaxAckId == 2
\* largest output_queue_size a DataReader is configured with
MaxOutputQueueSize == 2
\* largest buffer id that reaches the receive feed of the first channel
MaxId == 2
\* buffers the transport puts on the receive feeds, duplicates included
MaxDeliveries == 4

\* start() calls on one DataReader
MaxStarts == 2

\* modulus of the AtomicU8 schedule index, buffer_queue.rs:39
U8 == 256

Channels == {"ch_0", "ch_1"}

\* the first channel is driven up to and past its capacity; the other channels
\* see only the few calls that show they do not interfere
PushLimit(c) == IF c = "ch_0" THEN MaxPushes ELSE MaxPushes - MAX_BUFFERS_PER_CHANNEL
AckIds(c) == IF c = "ch_0" THEN 0 .. MaxAckId ELSE {0}
FeedIds(c) == IF c = "ch_0" THEN 0 .. MaxId ELSE {0}
\* the ids of a channel whose send window has moved on by MaxId + 1 buffers
WindowIds == 0 .. MAX_BUFFERS_PER_CHANNEL + MaxId

(* ----------------------------------------------------------------- state *)
VARIABLES
    in_queues,        \* BufferQueue.in_queues: channel -> Seq of buffers
    schedule_index,   \* BufferQueue.schedule_index: channel -> AtomicU8
    buffer_ids_seq,   \* BufferQueue.buffer_ids_seq: channel -> AtomicU32
    pop_requests,     \* BufferQueue.pop_requests: channel -> set of u32
    accepted,         \* history: channel -> number of try_push calls that returned true
    acked,            \* history: channel -> ids ever passed to request_pop
    early_ack,        \* history: channel -> some request_pop named an id not yet assigned
    offered,          \* history: channel -> Seq of ids returned by schedule_next
    evicted,          \* history: channel -> Seq of ids popped by request_pop
    last,             \* history: the call that ran last, its argument and result
    output_queue_size,\* DataReaderConfig.output_queue_size
    recv_chans,       \* DataReader.recv_chans: channel -> Seq of buffers (receive feed)
    send_chans,       \* DataReader.send_chans: channel -> Seq of acks (send feed)
    out_queue,        \* DataReader.out_queue: Seq of payloads
    watermarks,       \* DataReader.watermarks: channel -> AtomicI32
    out_of_order_buffers, \* DataReader.out_of_order_buffers: channel -> (id -> buffer)
    running,          \* DataReader.running
    dispatcher_thread_handle, \* DataReader.dispatcher_thread_handle: Seq of threads, capacity 1
    threads,          \* the dispatcher threads spawned so far: Seq of [pc, todo]
    received,         \* history: channel -> id -> number of times it was taken off the feed
    appended,         \* history: every payload pushed to out_queue, in order
    consumed,         \* history: every payload read_bytes returned, in order
    suspended,        \* history: channel -> a drain of this channel stopped on a full out_queue
    fed,              \* history: channel -> Seq of ids put on the receive feed, in order
    closer,           \* the thread that calls close(): [pc, handle]
    lock_holder,      \* Mutex or write lock -> the thread that holds it ("" when free)
    calls             \* thread -> the call it is in and its position: [op, ch, step]

qvars == <<in_queues, schedule_index, buffer_ids_seq, pop_requests,
           accepted, acked, early_ack, offered, evicted>>

rvars == <<output_queue_size, recv_chans, send_chans, out_queue, watermarks,
           out_of_order_buffers, running, dispatcher_thread_handle, threads,
           received, appended, consumed, suspended, fed, closer>>

\* the lock-level view of the calls (used by the specification of the lock order)
lvars == <<lock_holder, calls>>

vars == <<in_queues, schedule_index, buffer_ids_seq, pop_requests,
          accepted, acked, early_ack, offered, evicted, last,
          output_queue_size, recv_chans, send_chans, out_queue, watermarks,
          out_of_order_buffers, running, dispatcher_thread_handle, threads,
          received, appended, consumed, suspended, fed, closer, lock_holder, calls>>

Range(s) == {s[i] : i \in 1 .. Len(s)}

NoCall == [op |-> "none", ch |-> "", arg |-> -1, ret |-> -1]

\* the payload of the k-th message a producer hands over for channel c
Msg(c, k) == <<c, k>>

\* a buffer with metadata: new_buffer_with_meta(b, channel_id, buffer_id)
new_buffer_with_meta(b, channel_id, buffer_id) ==
    [channel_id |-> channel_id, buffer_id |-> buffer_id, payload |-> b]

get_buffer_id(b) == b.buffer_id

(* ------------------------------------------------------------ BufferQueue *)
BufferQueueNew ==
    /\ in_queues = [c \in Channels |-> <<>>]
    /\ schedule_index = [c \in Channels |-> 0]
    /\ buffer_ids_seq = [c \in Channels |-> 0]
    /\ pop_requests = [c \in Channels |-> {}]

\* AtomicU32::fetch_add(1): the counter wraps at 2^32, which no run of at most
\* MaxPushes pushes reaches
fetch_add_u32(x) == x + 1
\* AtomicU8::fetch_add(1) / AtomicU8::fetch_sub(1): the new value
fetch_add_u8(x) == (x + 1) % U8
fetch_sub_u8(x) == (x + U8 - 1) % U8

\* a capacity check that is off by one
QueueFull_off_by_one(q) == Len(q) = MAX_BUFFERS_PER_CHANNEL + 1

\* locked_queue.len() == MAX_BUFFERS_PER_CHANNEL
QueueFull(q) == Len(q) = MAX_BUFFERS_PER_CHANNEL

\* a try_push that draws the buffer id before it looks at the capacity
try_push_id_first(c, b) ==
    LET buffer_id == buffer_ids_seq[c]
    IN  /\ buffer_ids_seq' = [buffer_ids_seq EXCEPT ![c] = @ + 1]
        /\ IF Len(in_queues[c]) = MAX_BUFFERS_PER_CHANNEL
           THEN /\ last' = [op |-> "try_push", ch |-> c, arg |-> b, ret |-> 0]
                /\ UNCHANGED <<in_queues, accepted>>
           ELSE /\ in_queues' = [in_queues EXCEPT ![c] =
                                   Append(@, [channel_id |-> c, buffer_id |-> buffer_id,
                                              payload |-> b])]
                /\ accepted' = [accepted EXCEPT ![c] = @ + 1]
                /\ last' = [op |-> "try_push", ch |-> c, arg |-> b, ret |-> 1]
        /\ UNCHANGED <<schedule_index, pop_requests, acked, early_ack, offered, evicted>>
        /\ UNCHANGED <<rvars, lvars>>

\* try_push(channel_id, b): b is the caller's payload
try_push(c, b) ==
    IF QueueFull(in_queues[c])
    THEN /\ last' = [op |-> "try_push", ch |-> c, arg |-> b, ret |-> 0]
         /\ UNCHANGED <<in_queues, schedule_index, buffer_ids_seq, pop_requests,
                        accepted, acked, early_ack, offered, evicted>>
         /\ UNCHANGED <<rvars, lvars>>
    ELSE LET buffer_id == buffer_ids_seq[c]
             b_with_meta == new_buffer_with_meta(b, c, buffer_id)
         IN  /\ buffer_ids_seq' = [buffer_ids_seq EXCEPT ![c] = fetch_add_u32(@)]
             /\ in_queues' = [in_queues EXCEPT ![c] = Append(@, b_with_meta)]
             /\ accepted' = [accepted EXCEPT ![c] = @ + 1]
             /\ last' = [op |-> "try_push", ch |-> c, arg |-> b, ret |-> 1]
             /\ UNCHANGED <<schedule_index, pop_requests, acked, early_ack,
                            offered, evicted>>
             /\ UNCHANGED <<rvars, lvars>>

NoBuffer == [channel_id |-> "", buffer_id |-> -1, payload |-> <<>>]

\* index >= locked_queue.len() as u8
CursorAtEnd(index, q) == index >= Len(q) % U8

\* a schedule_next that pops the buffer it returns
schedule_next_popping(c) ==
    LET q == in_queues[c]
    IN  IF Len(q) = 0
        THEN /\ last' = [op |-> "schedule_next", ch |-> c, arg |-> -1, ret |-> NoBuffer]
             /\ UNCHANGED <<in_queues, schedule_index, buffer_ids_seq, pop_requests,
                            accepted, acked, early_ack, offered, evicted>>
             /\ UNCHANGED <<rvars, lvars>>
        ELSE /\ in_queues' = [in_queues EXCEPT ![c] = Tail(q)]
             /\ offered' = [offered EXCEPT ![c] = Append(@, Head(q).buffer_id)]
             /\ last' = [op |-> "schedule_next", ch |-> c, arg |-> -1, ret |-> Head(q)]
             /\ UNCHANGED <<schedule_index, buffer_ids_seq, pop_requests,
                            accepted, acked, early_ack, evicted>>
             /\ UNCHANGED <<rvars, lvars>>

\* schedule_next(channel_id): the buffer at the schedule index, without popping
schedule_next(c) ==
    LET q == in_queues[c]
        index == schedule_index[c]
    IN  IF Len(q) = 0 \/ CursorAtEnd(index, q)
        THEN /\ last' = [op |-> "schedule_next", ch |-> c, arg |-> -1, ret |-> NoBuffer]
             /\ UNCHANGED <<in_queues, schedule_index, buffer_ids_seq, pop_requests,
                            accepted, acked, early_ack, offered, evicted>>
             /\ UNCHANGED <<rvars, lvars>>
        ELSE /\ schedule_index' = [schedule_index EXCEPT ![c] = fetch_add_u8(@)]
             /\ offered' = [offered EXCEPT ![c] = Append(@, get_buffer_id(q[index + 1]))]
             /\ last' = [op |-> "schedule_next", ch |-> c, arg |-> -1, ret |-> q[index + 1]]
             /\ UNCHANGED <<in_queues, buffer_ids_seq, pop_requests,
                            accepted, acked, early_ack, evicted>>
             /\ UNCHANGED <<rvars, lvars>>

\* an acknowledgment taken as cumulative: it covers every lower id
HeadAcked_cumulative(q, reqs) == \E r \in reqs : Head(q).buffer_id <= r

\* the head buffer is popped: its id is in the pop requests
HeadAcked(q, reqs) == get_buffer_id(Head(q)) \in reqs

\* an `if` where request_pop has a `while`: at most one buffer is popped
PopLoop_once(q, reqs, index, popped) ==
    IF Len(q) # 0 /\ HeadAcked(q, reqs)
    THEN [queue |-> Tail(q), reqs |-> reqs \ {get_buffer_id(Head(q))},
          index |-> fetch_sub_u8(index), popped |-> Append(popped, get_buffer_id(Head(q)))]
    ELSE [queue |-> q, reqs |-> reqs, index |-> index, popped |-> popped]

\* the while loop of request_pop: pops the acknowledged prefix of the queue
RECURSIVE PopLoop(_, _, _, _)
PopLoop(q, reqs, index, popped) ==
    IF Len(q) # 0 /\ HeadAcked(q, reqs)
    THEN PopLoop(Tail(q), reqs \ {get_buffer_id(Head(q))}, fetch_sub_u8(index),
                 Append(popped, get_buffer_id(Head(q))))
    ELSE [queue |-> q, reqs |-> reqs, index |-> index, popped |-> popped]

\* request_pop(channel_id, buffer_id)
request_pop(c, buffer_id) ==
    LET r == PopLoop(in_queues[c], pop_requests[c] \cup {buffer_id},
                     schedule_index[c], <<>>)
    IN  /\ in_queues' = [in_queues EXCEPT ![c] = r.queue]
        /\ pop_requests' = [pop_requests EXCEPT ![c] = r.reqs]
        /\ schedule_index' = [schedule_index EXCEPT ![c] = r.index]
        /\ acked' = [acked EXCEPT ![c] = @ \cup {buffer_id}]
        /\ early_ack' = [early_ack EXCEPT ![c] = @ \/ buffer_id >= accepted[c]]
        /\ evicted' = [evicted EXCEPT ![c] = @ \o r.popped]
        /\ last' = [op |-> "request_pop", ch |-> c, arg |-> buffer_id, ret |-> Len(r.popped)]
        /\ UNCHANGED <<buffer_ids_seq, accepted, offered>>
        /\ UNCHANGED <<rvars, lvars>>

(* -------------------------------------------------------------- DataReader *)
\* DataReader::new: unbounded feeds, watermark -1, empty out-of-order maps
DataReaderNew(queue_size) ==
    /\ output_queue_size = queue_size
    /\ recv_chans = [c \in Channels |-> <<>>]
    /\ send_chans = [c \in Channels |-> <<>>]
    /\ out_queue = <<>>
    /\ watermarks = [c \in Channels |-> -1]
    /\ out_of_order_buffers = [c \in Channels |-> <<>>]
    /\ running = FALSE
    /\ dispatcher_thread_handle = <<>>
    /\ threads = <<>>

NoPayload == <<>>

\* new_buffer_drop_meta(b): the payload without its metadata
new_buffer_drop_meta(b) == b.payload

\* a pop from the wrong end of the out_queue
pop_back(q) == IF q = <<>> THEN [ret |-> <<>>, queue |-> q]
               ELSE [ret |-> q[Len(q)], queue |-> SubSeq(q, 1, Len(q) - 1)]

\* locked_out_queue.pop_front()
pop_front(q) == IF q = <<>> THEN [ret |-> NoPayload, queue |-> q]
                ELSE [ret |-> Head(q), queue |-> Tail(q)]

\* read_bytes(): non-blocking pop from the out_queue
read_bytes ==
    LET r == pop_front(out_queue)
    IN  /\ out_queue' = r.queue
        /\ last' = [op |-> "read_bytes", ch |-> "", arg |-> -1, ret |-> r.ret]
        /\ consumed' = IF r.ret = NoPayload THEN consumed ELSE Append(consumed, r.ret)
        /\ UNCHANGED <<output_queue_size, recv_chans, send_chans, watermarks,
                       out_of_order_buffers, running, dispatcher_thread_handle,
                       threads, received, appended, suspended, fed, closer>>
        /\ UNCHANGED <<qvars, lvars>>

\* send_ack(channel_id, buffer_id, sender): the send feed with the ack appended
send_ack(feed, buffer_id) == Append(feed, buffer_id)

\* a full check that never finds the out_queue full
OutQueueFull_never(q) == FALSE

\* a full check that lets one payload too many in
OutQueueFull_off_by_one(q) == Len(q) = output_queue_size + 1

\* locked_out_queue.len() == this_config.output_queue_size
OutQueueFull(q) == Len(q) = output_queue_size

\* a remove that leaves the entry in the map
MapRemove_keep(m, k) == m

\* HashMap::insert / HashMap::remove on the out-of-order map (a function on its keys)
MapInsert(m, k, v) == [x \in DOMAIN m \cup {k} |-> IF x = k THEN v ELSE m[x]]
MapRemove(m, k) == [x \in DOMAIN m \ {k} |-> m[x]]

\* a staleness test that misses the id at the watermark
IsStale_strict(buffer_id, wm) == buffer_id < wm

\* buffer_id as i32 <= wm; the ids of the model stay far below 2^31, where the
\* cast changes nothing
IsStale(buffer_id, wm) == buffer_id <= wm

\* a drain that takes the lowest entry of the map, contiguous or not
RECURSIVE Drain_lowest_key(_, _, _, _, _)
Drain_lowest_key(ooo, next_wm, outq, acks, cut) ==
    IF DOMAIN ooo # {}
    THEN LET k == CHOOSE x \in DOMAIN ooo : \A y \in DOMAIN ooo : x <= y
         IN  IF Len(outq) = output_queue_size
             THEN [ooo |-> ooo, next_wm |-> next_wm, outq |-> outq, acks |-> acks,
                   cut |-> TRUE]
             ELSE Drain_lowest_key([x \in DOMAIN ooo \ {k} |-> ooo[x]], k + 1,
                                   Append(outq, ooo[k].payload), Append(acks, k), cut)
    ELSE [ooo |-> ooo, next_wm |-> next_wm, outq |-> outq, acks |-> acks, cut |-> cut]

\* a drain that moves one entry only (an if where the code has a while)
Drain_once(ooo, next_wm, outq, acks, cut) ==
    IF next_wm \in DOMAIN ooo /\ Len(outq) # output_queue_size
    THEN [ooo |-> [x \in DOMAIN ooo \ {next_wm} |-> ooo[x]], next_wm |-> next_wm + 1,
          outq |-> Append(outq, ooo[next_wm].payload), acks |-> Append(acks, next_wm),
          cut |-> cut]
    ELSE [ooo |-> ooo, next_wm |-> next_wm, outq |-> outq, acks |-> acks, cut |-> cut]

\* the drain loop of the dispatcher (data_reader.rs 191-209): moves the contiguous
\* entries from next_wm on to the out_queue, acknowledging each, until a key is
\* missing or the out_queue is full
RECURSIVE Drain(_, _, _, _, _)
Drain(ooo, next_wm, outq, acks, cut) ==
    IF next_wm \in DOMAIN ooo
    THEN IF OutQueueFull(outq)
         THEN [ooo |-> ooo, next_wm |-> next_wm, outq |-> outq, acks |-> acks, cut |-> TRUE]
         ELSE LET stored_b == ooo[next_wm]
                  stored_buffer_id == get_buffer_id(stored_b)
                  payload == new_buffer_drop_meta(stored_b)
              IN  Drain(MapRemove(ooo, next_wm), next_wm + 1, Append(outq, payload),
                        send_ack(acks, stored_buffer_id), cut)
    ELSE [ooo |-> ooo, next_wm |-> next_wm, outq |-> outq, acks |-> acks, cut |-> cut]

\* what one pass of the dispatcher's for loop does for channel c
\* (data_reader.rs 153-213), the out_queue lock being held throughout
Dispatch(c) ==
    IF OutQueueFull(out_queue)
    THEN /\ last' = [op |-> "dispatch", ch |-> c, arg |-> -1, ret |-> "full"]
         /\ UNCHANGED <<recv_chans, send_chans, out_queue, watermarks,
                        out_of_order_buffers, received, appended, consumed, suspended>>
    ELSE IF recv_chans[c] = <<>>
    THEN /\ last' = [op |-> "dispatch", ch |-> c, arg |-> -1, ret |-> "empty"]
         /\ UNCHANGED <<recv_chans, send_chans, out_queue, watermarks,
                        out_of_order_buffers, received, appended, consumed, suspended>>
    ELSE LET b == Head(recv_chans[c])
             buffer_id == get_buffer_id(b)
             wm == watermarks[c]
             ooo == out_of_order_buffers[c]
         IN  /\ recv_chans' = [recv_chans EXCEPT ![c] = Tail(@)]
             /\ received' = [received EXCEPT ![c][buffer_id] = @ + 1]
             /\ IF IsStale(buffer_id, wm)
                THEN \* drop and resend ack
                     /\ send_chans' = [send_chans EXCEPT ![c] = send_ack(@, buffer_id)]
                     /\ last' = [op |-> "dispatch", ch |-> c, arg |-> buffer_id, ret |-> "stale"]
                     /\ UNCHANGED <<out_queue, watermarks, out_of_order_buffers,
                                    appended, suspended>>
                ELSE IF buffer_id \in DOMAIN ooo
                THEN \* duplicate
                     /\ send_chans' = [send_chans EXCEPT ![c] = send_ack(@, buffer_id)]
                     /\ last' = [op |-> "dispatch", ch |-> c, arg |-> buffer_id,
                                 ret |-> "duplicate"]
                     /\ UNCHANGED <<out_queue, watermarks, out_of_order_buffers,
                                    appended, suspended>>
                ELSE LET d == Drain(MapInsert(ooo, buffer_id, b), wm + 1, out_queue,
                                    send_chans[c], FALSE)
                     IN  /\ out_of_order_buffers' = [out_of_order_buffers EXCEPT ![c] = d.ooo]
                         /\ out_queue' = d.outq
                         /\ send_chans' = [send_chans EXCEPT ![c] = d.acks]
                         /\ watermarks' = [watermarks EXCEPT ![c] = d.next_wm - 1]
                         /\ appended' = appended \o
                                SubSeq(d.outq, Len(out_queue) + 1, Len(d.outq))
                         /\ suspended' = [suspended EXCEPT ![c] = @ \/ d.cut]
                         /\ last' = [op |-> "dispatch", ch |-> c, arg |-> buffer_id,
                                     ret |-> "inserted"]

\* the dispatcher thread t evaluates `while this_running.load()`
LoopCheck(t) ==
    /\ threads[t].pc = "while"
    /\ threads' = [threads EXCEPT ![t] =
                     IF running THEN [pc |-> "for", todo |-> Channels]
                     ELSE [pc |-> "exited", todo |-> {}]]
    /\ last' = [op |-> "while", ch |-> "", arg |-> -1, ret |-> -1]
    /\ UNCHANGED <<output_queue_size, recv_chans, send_chans, out_queue, watermarks,
                   out_of_order_buffers, running, dispatcher_thread_handle,
                   received, appended, consumed, suspended, fed, closer>>
    /\ UNCHANGED <<qvars, lvars>>

\* the dispatcher thread t runs the body of its for loop for channel c; the
\* iteration order of the channel map is not specified
Visit(t, c) ==
    /\ threads[t].pc = "for"
    /\ c \in threads[t].todo
    /\ Dispatch(c)
    /\ UNCHANGED consumed
    /\ threads' = [threads EXCEPT ![t] =
                     IF threads[t].todo = {c} THEN [pc |-> "while", todo |-> {}]
                     ELSE [pc |-> "for", todo |-> threads[t].todo \ {c}]]
    /\ UNCHANGED <<output_queue_size, running, dispatcher_thread_handle, fed, closer>>
    /\ UNCHANGED <<qvars, lvars>>

\* start(): sets the flag, spawns a dispatcher thread and stores its handle
start ==
    /\ running' = TRUE
    /\ threads' = Append(threads, [pc |-> "while", todo |-> {}])
    /\ dispatcher_thread_handle' =
          IF Len(dispatcher_thread_handle) < 1
          THEN Append(dispatcher_thread_handle, Len(threads) + 1)
          ELSE dispatcher_thread_handle
    /\ last' = [op |-> "start", ch |-> "", arg |-> -1,
                ret |-> IF Len(dispatcher_thread_handle) < 1 THEN "ok" ELSE "panic"]
    /\ UNCHANGED <<output_queue_size, recv_chans, send_chans, out_queue, watermarks,
                   out_of_order_buffers, received, appended, consumed, suspended,
                   fed, closer>>
    /\ UNCHANGED <<qvars, lvars>>

\* close() up to the join: clears the flag and pops the handle; handle.unwrap()
\* panics when start() stored none
close ==
    /\ closer.pc = "idle"
    /\ running' = FALSE
    /\ dispatcher_thread_handle' =
          IF dispatcher_thread_handle = <<>> THEN <<>> ELSE Tail(dispatcher_thread_handle)
    /\ closer' = IF dispatcher_thread_handle = <<>> THEN [pc |-> "panic", handle |-> 0]
                  ELSE [pc |-> "join", handle |-> Head(dispatcher_thread_handle)]
    /\ last' = [op |-> "close", ch |-> "", arg |-> -1, ret |-> -1]
    /\ UNCHANGED <<output_queue_size, recv_chans, send_chans, out_queue, watermarks,
                   out_of_order_buffers, threads, received, appended, consumed,
                   suspended, fed>>
    /\ UNCHANGED <<qvars, lvars>>

\* close() from the join on: join() returns once the thread of the handle has left
\* its loop, and close() returns
join ==
    /\ closer.pc = "join"
    /\ threads[closer.handle].pc = "exited"
    /\ closer' = [closer EXCEPT !.pc = "returned"]
    /\ last' = [op |-> "join", ch |-> "", arg |-> -1, ret |-> -1]
    /\ UNCHANGED <<output_queue_size, recv_chans, send_chans, out_queue, watermarks,
                   out_of_order_buffers, running, dispatcher_thread_handle, threads,
                   received, appended, consumed, suspended, fed>>
    /\ UNCHANGED <<qvars, lvars>>

\* the transport puts a buffer of channel c with id b on the receive feed
Deliver(c, b) ==
    /\ recv_chans' = [recv_chans EXCEPT ![c] =
                        Append(@, new_buffer_with_meta(Msg(c, b), c, b))]
    /\ fed' = [fed EXCEPT ![c] = Append(@, b)]
    /\ last' = [op |-> "deliver", ch |-> "", arg |-> -1, ret |-> -1]
    /\ UNCHANGED <<output_queue_size, send_chans, out_queue, watermarks,
                   out_of_order_buffers, running, dispatcher_thread_handle,
                   threads, received, appended, consumed, suspended, closer>>
    /\ UNCHANGED <<qvars, lvars>>

(* ------------------------------------------------------------ lock order *)
\* the RwLocks around the maps of a BufferQueue and a DataReader: after construction
\* they are only ever locked for reading, so that read() never waits
MapLocks == {<<m, "">> : m \in {"in_queues", "schedule_index", "buffer_ids_seq",
                                "pop_requests", "recv_chans", "send_chans",
                                "watermarks", "out_of_order_buffers"}}
\* the locks that exclude: the per-channel Mutex of pop_requests and in_queues, the
\* Mutex of the out_queue and the per-channel RwLock of the out-of-order map, which
\* is locked for writing
Locks == {<<"out_queue", "">>}
             \cup {<<m, c>> : m \in {"pop_request", "in_queue", "out_of_order"},
                             c \in Channels}

\* two threads that call the BufferQueue, the dispatcher thread and a consumer
Callers == {"caller_1", "caller_2"}
Threads == Callers \cup {"dispatcher", "consumer"}
Idle == [op |-> "idle", path |-> <<>>, step |-> 0]

\* no lock is held and no call is under way after construction
LocksInit ==
    /\ lock_holder = [l \in Locks |-> ""]
    /\ calls = [t \in Threads |-> Idle]

\* the steps of a call that touch a lock: read() on the RwLock of a map, lock() on
\* a Mutex or write() on a per-channel RwLock, and the drop of such a guard
ReadMap(m) == [a |-> "read", l |-> CHOOSE l \in MapLocks : l[1] = m]
Lock(m, c) == [a |-> "lock", l |-> <<m, c>>]
Unlock(m, c) == [a |-> "unlock", l |-> <<m, c>>]

\* try_push: in_queues.read(), the queue's lock(), then either `return false` or
\* buffer_ids_seq.read() and the push
TryPushPaths(c) ==
    {<<ReadMap("in_queues"), Lock("in_queue", c), Unlock("in_queue", c)>>,
     <<ReadMap("in_queues"), Lock("in_queue", c), ReadMap("buffer_ids_seq"),
       Unlock("in_queue", c)>>}

\* a schedule_next that takes the channel's pending-ack lock while it holds the
\* queue lock
ScheduleNextPaths_locks_requests(c) ==
    {<<ReadMap("in_queues"), Lock("in_queue", c), ReadMap("pop_requests"),
       Lock("pop_request", c), Unlock("pop_request", c), Unlock("in_queue", c)>>}

\* schedule_next: in_queues.read(), the queue's lock(), then either `return None` on
\* an empty queue or schedule_index.read()
ScheduleNextPaths(c) ==
    {<<ReadMap("in_queues"), Lock("in_queue", c), Unlock("in_queue", c)>>,
     <<ReadMap("in_queues"), Lock("in_queue", c), ReadMap("schedule_index"),
       Unlock("in_queue", c)>>}

\* request_pop: pop_requests.read(), the pending set's lock(), schedule_index.read(),
\* in_queues.read(), the queue's lock(); the guards drop in reverse order
RequestPopPaths(c) ==
    {<<ReadMap("pop_requests"), Lock("pop_request", c), ReadMap("schedule_index"),
       ReadMap("in_queues"), Lock("in_queue", c), Unlock("in_queue", c),
       Unlock("pop_request", c)>>}

\* read_bytes: the out_queue's lock()
ReadBytesPaths == {<<Lock("out_queue", ""), Unlock("out_queue", "")>>}

\* one pass of the dispatcher's for loop: the out_queue's lock(), and either nothing
\* more (out_queue full, feed empty, stale id) or write() on the channel's
\* out-of-order map, dropped at the end of the else block
VisitPaths(c) ==
    {<<Lock("out_queue", ""), Unlock("out_queue", "")>>,
     <<Lock("out_queue", ""), Lock("out_of_order", c), Unlock("out_of_order", c),
       Unlock("out_queue", "")>>}

\* one sweep of the dispatcher: read() on the four maps, then the channels in some
\* order
SweepPaths ==
    {<<ReadMap("recv_chans"), ReadMap("send_chans"), ReadMap("watermarks"),
       ReadMap("out_of_order_buffers")>> \o v1 \o v2 :
        <<v1, v2>> \in UNION {VisitPaths(c1) \X VisitPaths(c2) :
                                <<c1, c2>> \in {p \in Channels \X Channels : p[1] # p[2]}}}

\* the calls a thread can make, each with the lock steps of one way through it
CallsOf(t) ==
    IF t = "dispatcher" THEN {[op |-> "sweep", path |-> p, step |-> 1] : p \in SweepPaths}
    ELSE IF t = "consumer"
    THEN {[op |-> "read_bytes", path |-> p, step |-> 1] : p \in ReadBytesPaths}
    ELSE UNION {{[op |-> "try_push", path |-> p, step |-> 1] : p \in TryPushPaths(c)}
                \cup {[op |-> "schedule_next", path |-> p, step |-> 1] :
                         p \in ScheduleNextPaths(c)}
                \cup {[op |-> "request_pop", path |-> p, step |-> 1] :
                         p \in RequestPopPaths(c)} : c \in Channels}

InCall(t) == calls[t].op # "idle"
NextStep(t) == calls[t].path[calls[t].step]
\* the thread waits at a lock() or write() for a lock another thread holds
Blocked(t) ==
    /\ InCall(t)
    /\ NextStep(t).a = "lock"
    /\ lock_holder[NextStep(t).l] # ""

\* thread t enters a call
Call(t) ==
    /\ ~InCall(t)
    /\ \E k \in CallsOf(t) : calls' = [calls EXCEPT ![t] = k]
    /\ UNCHANGED <<lock_holder, last>>
    /\ UNCHANGED <<qvars, rvars>>

\* thread t takes the next lock step of its call, and returns after the last
Advance(t) ==
    /\ InCall(t)
    /\ ~Blocked(t)
    /\ lock_holder' =
          IF NextStep(t).a = "lock" THEN [lock_holder EXCEPT ![NextStep(t).l] = t]
          ELSE IF NextStep(t).a = "unlock" THEN [lock_holder EXCEPT ![NextStep(t).l] = ""]
          ELSE lock_holder
    /\ calls' = [calls EXCEPT ![t] =
                   IF calls[t].step = Len(calls[t].path) THEN Idle
                   ELSE [calls[t] EXCEPT !.step = @ + 1]]
    /\ UNCHANGED last
    /\ UNCHANGED <<qvars, rvars>>

(* ------------------------------------------------------- specifications *)
Init ==
    /\ BufferQueueNew
    /\ \E n \in 1 .. MaxOutputQueueSize : DataReaderNew(n)
    /\ accepted = [c \in Channels |-> 0]
    /\ acked = [c \in Channels |-> {}]
    /\ early_ack = [c \in Channels |-> FALSE]
    /\ offered = [c \in Channels |-> <<>>]
    /\ evicted = [c \in Channels |-> <<>>]
    /\ received = [c \in Channels |->
                     [b \in IF c = "ch_0" THEN WindowIds ELSE 0 .. MaxId |-> 0]]
    /\ appended = <<>>
    /\ consumed = <<>>
    /\ suspended = [c \in Channels |-> FALSE]
    /\ fed = [c \in Channels |-> <<>>]
    /\ closer = [pc |-> "idle", handle |-> 0]
    /\ LocksInit
    /\ last = NoCall

\* the producer hands over its messages in order; message k is its k-th accepted one
Producer == \E c \in Channels : accepted[c] < PushLimit(c) /\ try_push(c, Msg(c, accepted[c]))
Transport == \E c \in Channels : schedule_next(c)
AckReceiver == \E c \in Channels : \E b \in AckIds(c) : request_pop(c, b)

NextQ == Producer \/ Transport \/ AckReceiver

\* the send queue alone (the data reader, which takes no step, with one configuration)
InitQ == Init /\ output_queue_size = 1
SpecQ == InitQ /\ [][NextQ]_vars

RECURSIVE Sum(_, _)
Sum(f, S) == IF S = {} THEN 0
             ELSE LET x == CHOOSE y \in S : TRUE IN f[x] + Sum(f, S \ {x})

\* how many buffers have reached the receive feed of channel c
Delivered(c) == Sum(received[c], DOMAIN received[c]) + Len(recv_chans[c])
TotalDelivered == Sum([c \in Channels |-> Delivered(c)], Channels)

Starter == threads = <<>> /\ start
Feeder ==
    \E c \in Channels : \E b \in FeedIds(c) :
        /\ TotalDelivered < MaxDeliveries
        /\ Deliver(c, b)
Dispatcher ==
    \E t \in 1 .. Len(threads) : LoopCheck(t) \/ \E c \in Channels : Visit(t, c)
Consumer == read_bytes

NextR == Starter \/ Feeder \/ Dispatcher \/ Consumer

\* the data reader alone
SpecR == Init /\ [][NextR]_vars

\* the transport keeps polling schedule_next on every channel
FairSpecQ == SpecQ /\ \A c \in Channels : WF_vars(schedule_next(c))

\* the life cycle of a data reader: start() calls, then close(); the transport
\* delivers each channel's ids in order and once
Restarter == Len(threads) < MaxStarts /\ closer.pc = "idle" /\ start
Closer == close \/ join
InOrderFeeder ==
    \E c \in Channels :
        /\ Len(fed[c]) \in FeedIds(c)
        /\ Deliver(c, Len(fed[c]))

NextL == Restarter \/ Closer \/ InOrderFeeder \/ Dispatcher \/ Consumer
SpecL == Init /\ [][NextL]_vars

\* every dispatcher thread keeps running and the joining thread is scheduled
FairSpecL == SpecL /\ WF_vars(Dispatcher) /\ WF_vars(join)

\* the dispatcher thread keeps looping and the consumer keeps polling read_bytes;
\* nothing obliges the transport to deliver another buffer
FairSpecR == SpecR /\ WF_vars(Dispatcher) /\ WF_vars(Consumer)

\* a send queue and a data reader joined by a transport: the producer pushes, on
\* one channel, the ids that fit the receive side of the model; the transport puts buffers that
\* schedule_next returned on the receive feed, in any order and repeatedly, and
\* hands acks that the dispatcher emitted to request_pop, in any order and repeatedly
ProducerE ==
    LET c == "ch_0"
    IN  accepted[c] \in FeedIds(c) /\ try_push(c, Msg(c, accepted[c]))
Forward(c, b) ==
    /\ b \in Range(offered[c])
    /\ b \notin Range(fed[c]) \/ TotalDelivered < MaxDeliveries
    /\ Deliver(c, b)
ForwardAck(c, b) ==
    /\ b \in Range(send_chans[c])
    /\ request_pop(c, b)
Wire == \E c \in Channels : \E b \in FeedIds(c) : Forward(c, b)
AckWire == \E c \in Channels : \E b \in FeedIds(c) : ForwardAck(c, b)

NextE == ProducerE \/ Transport \/ Wire \/ Starter \/ Dispatcher \/ Consumer \/ AckWire
SpecE == Init /\ [][NextE]_vars

\* nothing is lost and nobody stops: the transport keeps polling schedule_next, every
\* buffer it got reaches the feed and every ack reaches request_pop at least once,
\* the dispatcher is started and keeps looping, the consumer keeps polling
FairSpecE ==
    /\ SpecE
    /\ \A c \in Channels : WF_vars(schedule_next(c))
    /\ \A c \in Channels : \A b \in FeedIds(c) :
          /\ WF_vars(b \notin Range(fed[c]) /\ Forward(c, b))
          /\ WF_vars(b \notin acked[c] /\ ForwardAck(c, b))
    /\ WF_vars(Starter) /\ WF_vars(Dispatcher) /\ WF_vars(Consumer)

\* the same system with a one-slot out_queue, followed until the send window has
\* moved past its first position, on a schedule the components allow: the producer
\* and the transport's schedule_next run ahead of everything else, the transport
\* holds back the buffers between the first MaxId + 1 and the last of WindowIds,
\* waits for the feed to be empty, and forwards each ack once
Settled(c) ==
    /\ QueueFull(in_queues[c]) \/ accepted[c] \notin WindowIds
    /\ CursorAtEnd(schedule_index[c], in_queues[c])
ProducerW ==
    LET c == "ch_0"
    IN  accepted[c] \in WindowIds /\ try_push(c, Msg(c, accepted[c]))
TransportW ==
    LET c == "ch_0"
    IN  /\ QueueFull(in_queues[c]) \/ accepted[c] \notin WindowIds
        /\ ~CursorAtEnd(schedule_index[c], in_queues[c])
        /\ schedule_next(c)
WireW ==
    \E b \in WindowIds :
        LET c == "ch_0"
        IN  /\ Settled(c)
            /\ b \in FeedIds(c) \/ b = MAX_BUFFERS_PER_CHANNEL + MaxId
            /\ recv_chans[c] = <<>>
            /\ Len(fed[c]) < 2 * Cardinality(FeedIds(c))
            /\ b \in Range(offered[c])
            /\ Deliver(c, b)
AckWireW ==
    \E b \in WindowIds :
        LET c == "ch_0"
        IN  /\ Settled(c)
            /\ b \notin acked[c]
            /\ ForwardAck(c, b)
ReaderW == Settled("ch_0") /\ (Starter \/ Dispatcher \/ Consumer)

NextW == ProducerW \/ TransportW \/ WireW \/ AckWireW \/ ReaderW
SpecW == InitQ /\ [][NextW]_vars

\* the send queue with a few buffers per channel, for the algebra of request_pop
ProducerA ==
    \E c \in Channels :
        accepted[c] <= Cardinality(AckIds(c)) /\ try_push(c, Msg(c, accepted[c]))
NextA == ProducerA \/ Transport \/ AckReceiver
SpecA == InitQ /\ [][NextA]_vars

\* the threads of a BufferQueue and a DataReader at the level of their locks
NextK == \E t \in Threads : Call(t) \/ Advance(t)
SpecK == InitQ /\ [][NextK]_vars

(* ------------------------------------------------------------ Send Queue *)
QueueIds(c) == [i \in 1 .. Len(in_queues[c]) |-> in_queues[c][i].buffer_id]
\* the step taken is a call of op on channel c
Called(op, c) == last'.op = op /\ last'.ch = c

\* C1: a channel's queue never holds more than MAX_BUFFERS_PER_CHANNEL buffers;
\* try_push returns false exactly when the queue already holds that many, and then
\* the queue, the sequence counter, the schedule cursor and the pending acks are
\* unchanged; otherwise it returns true and appends one buffer at the tail; a
\* full queue gets room again only by a request_pop on that channel.
C1_Capacity ==
    [][\A c \in Channels :
        /\ Len(in_queues'[c]) <= MAX_BUFFERS_PER_CHANNEL
        /\ Len(in_queues'[c]) < Len(in_queues[c]) => Called("request_pop", c)
        /\ Called("try_push", c) =>
             IF Len(in_queues[c]) = MAX_BUFFERS_PER_CHANNEL
             THEN /\ last'.ret = 0
                  /\ UNCHANGED <<in_queues, buffer_ids_seq, schedule_index, pop_requests>>
             ELSE /\ last'.ret = 1
                  /\ Len(in_queues'[c]) = Len(in_queues[c]) + 1
                  /\ SubSeq(in_queues'[c], 1, Len(in_queues[c])) = in_queues[c]
                  /\ in_queues'[c][Len(in_queues'[c])].payload = last'.arg
    ]_vars

\* C1 witness: a try_push was refused on a full queue
C1_Witness ==
    /\ last.op = "try_push" /\ last.ret = 0
    /\ Len(in_queues[last.ch]) = MAX_BUFFERS_PER_CHANNEL

\* C2: the k-th successful try_push of a channel stamps buffer id k (the producer's
\* k-th message carries payload k), so the ids in the queue are consecutive and
\* increasing; a refused try_push consumes no id, and calls on other channels do
\* not change the ids a channel assigns.
C2_MonotonicIds ==
    \A c \in Channels :
        /\ buffer_ids_seq[c] = accepted[c]
        /\ \A i \in 1 .. Len(in_queues[c]) :
             /\ in_queues[c][i].payload = Msg(c, in_queues[c][i].buffer_id)
             /\ in_queues[c][i].buffer_id = accepted[c] - Len(in_queues[c]) + i - 1

\* C2 witness: a push is refused on a full channel, which consumes no id, while
\* another channel has assigned and offered an id of its own
C2_Witness ==
    /\ last.op = "try_push" /\ last.ch = "ch_0" /\ last.ret = 0
    /\ accepted["ch_0"] = MAX_BUFFERS_PER_CHANNEL
    /\ buffer_ids_seq["ch_0"] = MAX_BUFFERS_PER_CHANNEL
    /\ accepted["ch_1"] = 1
    /\ offered["ch_1"] = <<0>>

\* the number of ids 0, 1, ... that are all in acks, among the first n
RECURSIVE AckedPrefix(_, _, _)
AckedPrefix(k, n, acks) ==
    IF k < n /\ k \in acks THEN AckedPrefix(k + 1, n, acks) ELSE k

\* the pushed buffers' ids minus their longest acknowledged prefix
Unacked(c) ==
    LET k == AckedPrefix(0, accepted[c], acked[c])
    IN  [i \in 1 .. accepted[c] - k |-> k + i - 1]

C4_CursorInRange ==
    \A c \in Channels :
        0 <= schedule_index[c] /\ schedule_index[c] <= Len(in_queues[c])

\* C5: schedule_next changes neither the queues, nor the sequence counters, nor the
\* pending acks; with the cursor below the queue length it returns the buffer at
\* the cursor and advances the cursor by one; with an empty queue or the cursor at
\* the queue length it returns nothing and leaves the cursor alone; the buffers it
\* returns come in increasing id order, each once; with no eviction so far they are
\* exactly the buffers below the cursor, in queue order; and while the cursor is
\* within the queue every buffer below it has been returned.
C5_ScheduleNext ==
    [][\A c \in Channels :
        /\ Called("schedule_next", c) =>
             /\ UNCHANGED <<in_queues, buffer_ids_seq, pop_requests>>
             /\ \A d \in Channels \ {c} : schedule_index'[d] = schedule_index[d]
             /\ (Len(in_queues[c]) # 0 /\ schedule_index[c] < Len(in_queues[c])) =>
                    /\ last'.ret = in_queues[c][schedule_index[c] + 1]
                    /\ schedule_index'[c] = schedule_index[c] + 1
             /\ (Len(in_queues[c]) = 0 \/ schedule_index[c] = Len(in_queues[c])) =>
                    /\ last'.ret = NoBuffer
                    /\ schedule_index'[c] = schedule_index[c]
        /\ \A i \in 1 .. Len(offered'[c]) - 1 : offered'[c][i] < offered'[c][i + 1]
        /\ evicted'[c] = <<>> =>
             /\ Len(offered'[c]) = schedule_index'[c]
             /\ \A i \in 1 .. Len(offered'[c]) : offered'[c][i] = in_queues'[c][i].buffer_id
        /\ schedule_index'[c] <= Len(in_queues'[c]) =>
             \A i \in 1 .. schedule_index'[c] :
                 in_queues'[c][i].buffer_id \in Range(offered'[c])
    ]_vars

\* C5 witness: three buffers were returned in order and the next call returned
\* nothing, the cursor being at the queue length
C5_Witness ==
    /\ last.op = "schedule_next" /\ last.ch = "ch_0" /\ last.ret = NoBuffer
    /\ offered["ch_0"] = <<0, 1, 2>>
    /\ Len(in_queues["ch_0"]) = 2
    /\ schedule_index["ch_0"] = 2

\* an id that schedule_next returned at least twice
Reoffered(c, b) ==
    \E i, j \in 1 .. Len(offered[c]) : i < j /\ offered[c][i] = b /\ offered[c][j] = b

\* schedule_next has returned every queued buffer, b among them, a predecessor of b
\* has since been evicted and b is not acknowledged
AwaitsReoffer(c, b) ==
    /\ b \in Range(QueueIds(c))
    /\ Range(QueueIds(c)) \subseteq Range(offered[c])
    /\ b \notin acked[c]
    /\ evicted[c] # <<>>

\* C6 as stated: a buffer that stays unacknowledged in the queue after every queued
\* buffer was offered and a predecessor was evicted is returned by a later
\* schedule_next again (or it is acknowledged first).
C6_Reoffer ==
    \A c \in Channels : \A b \in 0 .. MaxPushes :
        AwaitsReoffer(c, b) ~> (Reoffered(c, b) \/ b \in acked[c])

(* ------------------------------------------------------ Receive Dispatcher *)
\* the buffer ids of channel c among the payloads of s, in order
RECURSIVE IdsOf(_, _)
IdsOf(c, s) ==
    IF s = <<>> THEN <<>>
    ELSE IF Head(s)[1] = c THEN <<Head(s)[2]>> \o IdsOf(c, Tail(s))
    ELSE IdsOf(c, Tail(s))

\* how often x occurs in the sequence s
Count(x, s) == Cardinality({i \in 1 .. Len(s) : s[i] = x})

\* C7: for every channel the payloads the dispatcher appends to the out_queue carry
\* the ids 0, 1, 2, ... in that order, none skipped and none twice, whatever arrives
\* on the feed; read_bytes hands them over in the order they were appended and
\* returns nothing only when the out_queue is empty.
C7_ExactlyOnceInOrder ==
    /\ \A c \in Channels :
         LET ids == IdsOf(c, appended)
         IN  \A i \in 1 .. Len(ids) : ids[i] = i - 1
    /\ appended = consumed \o out_queue
    /\ (last.op = "read_bytes" /\ last.ret = NoPayload) => out_queue = <<>>

\* C7 witness: ids arrived out of order and twice, and the consumer has read the
\* three payloads of the channel in order
C7_Witness ==
    /\ IdsOf("ch_0", consumed) = <<0, 1, 2>>
    /\ received["ch_0"][0] = 2
    /\ last.op = "read_bytes"
    /\ send_chans["ch_0"] = <<0, 0, 1, 2>>

\* C8 as stated: once an id was taken off a channel's feed twice, exactly one payload
\* of that id has reached the out_queue and exactly two acks were emitted for it.
C8_TwoArrivals ==
    \A c \in Channels : \A b \in 0 .. MaxId :
        received[c][b] = 2 =>
            /\ Count(Msg(c, b), appended) = 1
            /\ Count(b, send_chans[c]) = 2

\* C8, amended: the arrival of an id that arrived before is discarded with exactly
\* one ack, the out_queue, the watermarks and the out-of-order maps unchanged; no
\* id reaches the out_queue twice; and once an id has arrived twice, one payload
\* and two acks exist for it if it is at or below the watermark, and no payload and
\* one ack if it still waits in the out-of-order map.
C8_Duplicate ==
    [][\A c \in Channels :
        /\ (Called("dispatch", c) /\ last'.arg >= 0 /\ received[c][last'.arg] >= 1) =>
             /\ send_chans'[c] = Append(send_chans[c], last'.arg)
             /\ UNCHANGED <<out_queue, watermarks, out_of_order_buffers>>
        /\ \A b \in 0 .. MaxId :
             /\ Count(Msg(c, b), appended') <= 1
             /\ received'[c][b] = 2 =>
                  IF b <= watermarks'[c]
                  THEN Count(Msg(c, b), appended') = 1 /\ Count(b, send_chans'[c]) = 2
                  ELSE /\ Count(Msg(c, b), appended') = 0
                       /\ Count(b, send_chans'[c]) = 1
                       /\ b \in DOMAIN out_of_order_buffers'[c]
    ]_vars

\* C8 witness: id 1 arrived twice while it waited in the out-of-order map, and was
\* then delivered once
C8_Witness ==
    /\ received["ch_0"][1] = 2
    /\ watermarks["ch_0"] = 1
    /\ send_chans["ch_0"] = <<1, 0, 1>>
    /\ Count(Msg("ch_0", 1), appended) = 1

\* the ids 0 .. n-1 of channel c have each been taken off the feed once, and nothing else
ArrivedOnce(c, n) == \A b \in 0 .. MaxId : received[c][b] = IF b < n THEN 1 ELSE 0

\* C9: when the ids 0 .. n-1 of a channel have arrived in any order, each once, and
\* no drain of the channel had to stop on a full out_queue, their payloads were
\* appended in the order 0 .. n-1, one ack per id was emitted, the out-of-order map
\* is empty and the watermark is n - 1.
C9_Reordering ==
    \A c \in Channels : \A n \in 1 .. MaxId + 1 :
        (ArrivedOnce(c, n) /\ ~suspended[c]) =>
            /\ IdsOf(c, appended) = [i \in 1 .. n |-> i - 1]
            /\ \A b \in 0 .. n - 1 : Count(b, send_chans[c]) = 1
            /\ Len(send_chans[c]) = n
            /\ DOMAIN out_of_order_buffers[c] = {}
            /\ watermarks[c] = n - 1

\* C9 witness: 0, 1 and 2 arrived once each, 1 last (so after 2), and the
\* watermark is 2
C9_Witness ==
    /\ ArrivedOnce("ch_0", 3)
    /\ ~suspended["ch_0"]
    /\ last.op = "dispatch" /\ last.ch = "ch_0" /\ last.arg = 1
    /\ watermarks["ch_0"] = 2

\* C10: the out_queue never holds more than output_queue_size payloads, whatever
\* the interleaving of the dispatcher and read_bytes.
C10_OutputBound == Len(out_queue) <= output_queue_size

\* C10 witness: a drain stopped on a full out_queue
C10_Witness ==
    /\ Len(out_queue) = output_queue_size
    /\ \E c \in Channels : suspended[c]

\* the ids on the receive feed of channel c, in order
FeedIdsOf(c) == [i \in 1 .. Len(recv_chans[c]) |-> get_buffer_id(recv_chans[c][i])]

\* the ids 0, 1, 2 were put on the feed of channel c in that order and nothing on any
\* other feed, the out_queue has room for one payload and read_bytes returned none
InOrderNoConsumer(c) ==
    /\ output_queue_size = 1
    /\ consumed = <<>>
    /\ fed[c] = <<0, 1, 2>>
    /\ \A d \in Channels \ {c} : fed[d] = <<>>

\* the last step was a visit of channel c by the dispatcher that took nothing off
\* the feed (the dispatcher has done what it can)
SweptIdle(c) ==
    /\ last.op = "dispatch" /\ last.ch = c
    /\ last.ret \in {"full", "empty"}

LeftBehind(c, b) ==
    /\ running
    /\ b \in DOMAIN out_of_order_buffers[c]
    /\ b = watermarks[c] + 1

\* C12 as stated: an entry left in the out-of-order map at watermark + 1 is moved to
\* the out_queue by the running dispatcher once the consumer, who keeps polling, has
\* freed space, even if no further buffer arrives on the channel.
C12_DrainResumes ==
    \A c \in Channels : \A b \in 0 .. MaxId :
        LeftBehind(c, b) ~> (Count(Msg(c, b), appended) = 1)

(* --------------------------------------------------------------- life cycle *)
\* the dispatcher threads that have not left their loop
LiveLoops == {t \in 1 .. Len(threads) : threads[t].pc # "exited"}

\* C13 as stated: however many start() calls are made before a close(), one
\* dispatcher loop exists: a start() that finds the running flag set spawns none.
C13_SingleLoop ==
    /\ (running /\ closer.pc = "idle") => Cardinality(LiveLoops) = 1
    /\ Len(threads) <= 1

\* what a close() that has returned leaves behind: the flag is clear, the joined
\* thread has left its loop, the dispatcher state does not change any more and
\* read_bytes returns the head of the out_queue
ClosedAndQuiet ==
    /\ closer'.pc \in {"join", "returned"} => ~running'
    /\ closer'.pc = "returned" => threads'[closer'.handle].pc = "exited"
    /\ closer.pc = "returned" =>
         /\ UNCHANGED <<appended, send_chans, watermarks, out_of_order_buffers>>
         /\ (last'.op = "read_bytes" /\ out_queue # <<>>) =>
                (last'.ret = Head(out_queue) /\ out_queue' = Tail(out_queue))

\* C14 as stated: close() clears the running flag and returns only after the
\* dispatcher loop has exited; after close() has returned the dispatcher appends
\* nothing to the out_queue, emits no ack and changes no watermark and no
\* out-of-order map, whatever arrives on the feeds, and read_bytes still returns the
\* payloads in the out_queue.
C14_CloseThenQuiet == [][ClosedAndQuiet]_vars

\* the same for a data reader on which start() was called once
C14_SingleStart == [][Len(threads) = 1 => ClosedAndQuiet]_vars

\* a close() that has reached the join returns
C14_Terminates == (closer.pc = "join") ~> (closer.pc = "returned")

(* --------------------------------------------------------------- end to end *)
\* C15 as stated: over a transport that reorders and duplicates but loses nothing,
\* with a running dispatcher and a polling consumer, every payload that try_push
\* accepted is eventually returned by read_bytes, once and in push order, and its
\* buffer is eventually evicted from the send queue, for every output_queue_size.
C15_EndToEnd ==
    /\ [](\A c \in Channels :
            LET ids == IdsOf(c, consumed)
            IN  \A i \in 1 .. Len(ids) : ids[i] = i - 1)
    /\ \A c \in Channels : \A k \in FeedIds(c) :
          (k < accepted[c]) ~>
              (Count(Msg(c, k), consumed) = 1 /\ k \in Range(evicted[c]))

(* ---------------------------------------------------------- receive state *)
\* C16: for every channel, in every reachable state, (1) the out-of-order map holds
\* no key at or below the watermark, (2) the watermark starts at -1 and never
\* decreases, and (3) the payloads of the channel appended to the out_queue so far
\* are those of the ids 0 .. watermark, so that their number is watermark + 1.
C16_ReceiveInvariants ==
    /\ \A c \in Channels : watermarks[c] = -1
    /\ [](\A c \in Channels :
            /\ \A k \in DOMAIN out_of_order_buffers[c] : k > watermarks[c]
            /\ Len(IdsOf(c, appended)) = watermarks[c] + 1
            /\ \A b \in 0 .. watermarks[c] : Count(Msg(c, b), appended) = 1)
    /\ [][\A c \in Channels : watermarks'[c] >= watermarks[c]]_vars

\* C16 witness: both channels have delivered their id 0, and id 2 of the first
\* channel waits in its out-of-order map above the watermark
C16_Witness ==
    /\ watermarks["ch_0"] = 0
    /\ DOMAIN out_of_order_buffers["ch_0"] = {2}
    /\ watermarks["ch_1"] = 0
    /\ Len(appended) = 2

(* ------------------------------------------------------------------- acks *)
\* the acks the step appends to the send feed of channel c are for payloads that are
\* in the out_queue history after the step
AcksCommitted(c) ==
    \A i \in Len(send_chans[c]) + 1 .. Len(send_chans'[c]) :
        Count(Msg(c, send_chans'[c][i]), appended') >= 1

\* every buffer the send queue has evicted has its payload in the out_queue history
EvictedCommitted == \A c \in Channels : \A b \in Range(evicted[c]) : Count(Msg(c, b), appended) >= 1

\* C17 as stated: the dispatcher emits an ack for (channel, b) only when the payload
\* of b has been appended to the out_queue, before or in the same step; so, with
\* the acks fed to request_pop, the send queue never evicts a buffer whose payload
\* the receiver has not appended.
C17_AckMeansCommitted ==
    /\ [][\A c \in Channels : AcksCommitted(c)]_vars
    /\ []EvictedCommitted

(* ------------------------------------------------------------ map bound *)
\* C18 as stated: when the feed gets only buffers that schedule_next returned and
\* request_pop only acks that the dispatcher emitted, a channel's out-of-order map
\* holds at most MAX_BUFFERS_PER_CHANNEL entries and every key in it is below
\* watermark + 1 + MAX_BUFFERS_PER_CHANNEL.
C18_MapBound ==
    \A c \in Channels :
        /\ Cardinality(DOMAIN out_of_order_buffers[c]) <= MAX_BUFFERS_PER_CHANNEL
        /\ \A k \in DOMAIN out_of_order_buffers[c] :
              k < watermarks[c] + 1 + MAX_BUFFERS_PER_CHANNEL

(* ------------------------------------------------------------ ack algebra *)
\* the queue, the pending acks and the cursor of channel c, and what a call
\* request_pop(c, b) makes of them
Here(c) == [queue |-> in_queues[c], reqs |-> pop_requests[c], index |-> schedule_index[c]]
AfterAck(st, b) ==
    LET r == PopLoop(st.queue, st.reqs \cup {b}, st.index, <<>>)
    IN  [queue |-> r.queue, reqs |-> r.reqs, index |-> r.index]
QueueAndCursor(st) == <<st.queue, st.index>>

\* the calls request_pop(c, s[1]), request_pop(c, s[2]), ... one after the other
RECURSIVE AfterAcks(_, _)
AfterAcks(st, s) == IF s = <<>> THEN st ELSE AfterAcks(AfterAck(st, Head(s)), Tail(s))

\* the orders in which three acks can be applied
Orders(b1, b2, b3) == {<<b1, b2, b3>>, <<b1, b3, b2>>, <<b2, b1, b3>>,
                       <<b2, b3, b1>>, <<b3, b1, b2>>, <<b3, b2, b1>>}

\* request_pop(c, b) twice leaves the queue and the cursor that one call leaves, and
\* two or three acks leave the same queue and cursor in whatever order they come
IdempotentAndCommuting(c) ==
    /\ \A b \in AckIds(c) :
          QueueAndCursor(AfterAcks(Here(c), <<b, b>>)) =
              QueueAndCursor(AfterAcks(Here(c), <<b>>))
    /\ \A b1, b2 \in AckIds(c) :
          b1 < b2 =>
              QueueAndCursor(AfterAcks(Here(c), <<b1, b2>>)) =
                  QueueAndCursor(AfterAcks(Here(c), <<b2, b1>>))
    /\ \A b1, b2, b3 \in AckIds(c) :
          (b1 < b2 /\ b2 < b3) =>
              \A s \in Orders(b1, b2, b3) :
                  QueueAndCursor(AfterAcks(Here(c), s)) =
                      QueueAndCursor(AfterAcks(Here(c), <<b1, b2, b3>>))

\* b was evicted from channel c, or no try_push has assigned it yet
EvictedOrUnassigned(c, b) == b \in Range(evicted[c]) \/ b >= accepted[c]

\* the id of the head of the queue is among the pending acks (it was acknowledged
\* before try_push assigned it)
HeadPending(c) == in_queues[c] # <<>> /\ HeadAcked(in_queues[c], pop_requests[c])

\* C19 as stated: request_pop is idempotent and order-insensitive on the queue and
\* the cursor, and an ack for an id that was already evicted or was never assigned
\* changes neither the queue nor the cursor.
C19_AckAlgebra ==
    \A c \in Channels :
        /\ IdempotentAndCommuting(c)
        /\ \A b \in AckIds(c) :
              EvictedOrUnassigned(c, b) =>
                  QueueAndCursor(AfterAck(Here(c), b)) = QueueAndCursor(Here(c))

\* C19, amended: request_pop is idempotent and order-insensitive on the queue and
\* the cursor; an ack for an id that was already evicted or was never assigned
\* changes neither the queue nor the cursor unless the id of the head buffer is
\* already pending; and no buffer is evicted whose own id was not acknowledged.
C19_AckAlgebraAmended ==
    \A c \in Channels :
        /\ IdempotentAndCommuting(c)
        /\ \A b \in AckIds(c) :
              (EvictedOrUnassigned(c, b) /\ ~HeadPending(c)) =>
                  QueueAndCursor(AfterAck(Here(c), b)) = QueueAndCursor(Here(c))
        /\ Range(evicted[c]) \subseteq acked[c]

\* C19 witness: with [0,1,2] queued, 2 was acknowledged, then 0, and 0 again: the
\* second ack of 0 evicted nothing and the queue is [1,2]
C19_Witness ==
    /\ last = [op |-> "request_pop", ch |-> "ch_0", arg |-> 0, ret |-> 0]
    /\ evicted["ch_0"] = <<0>>
    /\ pop_requests["ch_0"] = {0, 2}
    /\ QueueIds("ch_0") = <<1, 2>>
    /\ ~HeadPending("ch_0")

(* ----------------------------------------------------------- lock order *)
\* the locks thread t holds
HeldBy(t) == {l \in Locks : lock_holder[l] = t}

\* the pending-ack lock and the out_queue lock are taken first, the queue lock and
\* the out-of-order lock second
Rank(l) == IF l[1] \in {"pop_request", "out_queue"} THEN 1 ELSE 2

\* a set of threads that wait for each other: each is blocked on a lock that a
\* member of the set holds
Deadlocked(S) == \A t \in S : Blocked(t) /\ lock_holder[NextStep(t).l] \in S

\* C20: whatever the interleaving of try_push, schedule_next and request_pop calls, of
\* the dispatcher's sweeps and of read_bytes calls, no set of threads wait for each
\* other, so that some thread inside a call can always take its next step; a thread
\* takes a lock only while it holds none of the same or a higher rank (request_pop
\* the pending-ack lock before the queue lock, the dispatcher the out_queue lock
\* before the out-of-order lock), and the other calls hold one lock at a time.
C20_DeadlockFree ==
    /\ \A S \in SUBSET Threads : S # {} => ~Deadlocked(S)
    /\ (\E t \in Threads : InCall(t)) => \E t \in Threads : InCall(t) /\ ~Blocked(t)
    /\ \A t \in Threads :
          /\ (InCall(t) /\ NextStep(t).a = "lock") =>
                \A l \in HeldBy(t) : Rank(l) < Rank(NextStep(t).l)
          /\ calls[t].op \in {"try_push", "schedule_next", "read_bytes"} =>
                Cardinality(HeldBy(t)) <= 1

\* C20 witness: a request_pop holds the pending-ack lock and waits for the queue
\* lock that a try_push on the same channel holds, while the dispatcher holds the
\* out_queue and an out-of-order lock and the consumer waits for the out_queue
C20_Witness ==
    /\ calls["caller_1"].op = "request_pop" /\ Blocked("caller_1")
    /\ HeldBy("caller_1") = {<<"pop_request", "ch_0">>}
    /\ calls["caller_2"].op = "try_push"
    /\ HeldBy("caller_2") = {<<"in_queue", "ch_0">>}
    /\ HeldBy("dispatcher") = {<<"out_queue", "">>, <<"out_of_order", "ch_1">>}
    /\ Blocked("consumer")

====
